---- MODULE Spec2Model ----
(***************************************************************************)
(* Model of haystraw/Informatica_Load_Metadata_to_SQL.                     *)
(*                                                                         *)
(*   Pipeline B (src/load_excel.py): process_excel_files and DBHandler,    *)
(*   one action per statement executed on the connection.  Specification   *)
(*   Spec.                                                                 *)
(*   Pipeline A (src/extract_from_idmc.py): main and the five network      *)
(*   calls, one action per request.  Specification SpecA.                  *)
(*                                                                         *)
(* Text is modelled as sequences of one-character strings, so that strip,  *)
(* replace, upper, lower and the substring tests of the source are         *)
(* computed and not assumed.                                               *)
(***************************************************************************)
EXTENDS Integers, Sequences, FiniteSets, TLC

\* ------------------------------------------------------------------ bounds
\* Sheets read in one run of process_excel_files (all files flattened).
MaxSheets == 2
\* Status polls made by check_job_status before the model stops the server
\* from answering with a non-terminal status.
MaxPolls == 4

\* ------------------------------------------------------------- characters
IsSpace(c) == c \in {" ", "\t"}

UpperChar(c) ==
  CASE c = "a" -> "A"
    [] c = "b" -> "B"
    [] OTHER -> c

LowerChar(c) ==
  CASE c = "A" -> "a"
    [] c = "B" -> "b"
    [] c = "I" -> "i"
    [] c = "L" -> "l"
    [] c = "P" -> "p"
    [] c = "S" -> "s"
    [] c = "X" -> "x"
    [] c = "Z" -> "z"
    [] OTHER -> c

\* str.upper()
Upper(s) == [i \in 1..Len(s) |-> UpperChar(s[i])]

\* str.lower()
Lower(s) == [i \in 1..Len(s) |-> LowerChar(s[i])]

\* sub in s
Contains(s, sub) ==
  \E i \in 1..(Len(s) - Len(sub) + 1) : SubSeq(s, i, i + Len(sub) - 1) = sub

RECURSIVE LStrip(_)
LStrip(s) == IF s # <<>> /\ IsSpace(Head(s)) THEN LStrip(Tail(s)) ELSE s

RECURSIVE RStrip(_)
RStrip(s) ==
  IF s # <<>> /\ IsSpace(s[Len(s)]) THEN RStrip(SubSeq(s, 1, Len(s) - 1)) ELSE s

\* str.strip(): leading and trailing whitespace removed
Strip(s) == RStrip(LStrip(s))

\* str.replace(old, new) for a one-character old
Replace(s, old, new) == [i \in 1..Len(s) |-> IF s[i] = old THEN new ELSE s[i]]

\* The variant of the name derivation without strip().
NormalizeNoStrip(sheet) == Replace(sheet, " ", "_")

\* table_name = sheet_name.strip().replace(" ", "_")
NormalizeName(sheet) == Replace(Strip(sheet), " ", "_")

\* ------------------------------------------------------------ SQL types
\* SQL_TYPE_MAPPING: dialect -> pandas dtype -> SQL type
SQL_TYPE_MAPPING ==
  [ sqlserver |->  \* BIGINT, FLOAT, VARCHAR(4000), DATETIME, BIT
      ( "int64" :> <<"B","I","G","I","N","T">> @@
        "float64" :> <<"F","L","O","A","T">> @@
        "object" :> <<"V","A","R","C","H","A","R","(","4","0","0","0",")">> @@
        "datetime64[ns]" :> <<"D","A","T","E","T","I","M","E">> @@
        "bool" :> <<"B","I","T">> ),
    oracle |->  \* NUMBER, FLOAT, VARCHAR2(4000), DATE, NUMBER(1)
      ( "int64" :> <<"N","U","M","B","E","R">> @@
        "float64" :> <<"F","L","O","A","T">> @@
        "object" :> <<"V","A","R","C","H","A","R","2","(","4","0","0","0",")">> @@
        "datetime64[ns]" :> <<"D","A","T","E">> @@
        "bool" :> <<"N","U","M","B","E","R","(","1",")">> ),
    snowflake |->  \* NUMBER, FLOAT, VARCHAR, TIMESTAMP_NTZ, BOOLEAN
      ( "int64" :> <<"N","U","M","B","E","R">> @@
        "float64" :> <<"F","L","O","A","T">> @@
        "object" :> <<"V","A","R","C","H","A","R">> @@
        "datetime64[ns]" :> <<"T","I","M","E","S","T","A","M","P","_","N","T","Z">> @@
        "bool" :> <<"B","O","O","L","E","A","N">> ),
    databricks |->  \* BIGINT, DOUBLE, STRING, TIMESTAMP, BOOLEAN
      ( "int64" :> <<"B","I","G","I","N","T">> @@
        "float64" :> <<"D","O","U","B","L","E">> @@
        "object" :> <<"S","T","R","I","N","G">> @@
        "datetime64[ns]" :> <<"T","I","M","E","S","T","A","M","P">> @@
        "bool" :> <<"B","O","O","L","E","A","N">> ),
    mysql |->  \* BIGINT, DOUBLE, VARCHAR(255), DATETIME, TINYINT(1)
      ( "int64" :> <<"B","I","G","I","N","T">> @@
        "float64" :> <<"D","O","U","B","L","E">> @@
        "object" :> <<"V","A","R","C","H","A","R","(","2","5","5",")">> @@
        "datetime64[ns]" :> <<"D","A","T","E","T","I","M","E">> @@
        "bool" :> <<"T","I","N","Y","I","N","T","(","1",")">> ),
    postgres |->  \* BIGINT, DOUBLE PRECISION, TEXT, TIMESTAMP, BOOLEAN
      ( "int64" :> <<"B","I","G","I","N","T">> @@
        "float64" :> <<"D","O","U","B","L","E"," ","P","R","E","C","I","S","I","O","N">> @@
        "object" :> <<"T","E","X","T">> @@
        "datetime64[ns]" :> <<"T","I","M","E","S","T","A","M","P">> @@
        "bool" :> <<"B","O","O","L","E","A","N">> ) ]

\* The six dialects, as DBHandler.db_type holds them (lower case).
Dialects == {"sqlserver", "oracle", "snowflake", "databricks", "mysql", "postgres"}

\* 'VARCHAR(255)', the default of sql_types_map.get('object', ...)
DEFAULT_TEXT == <<"V","A","R","C","H","A","R","(","2","5","5",")">>

\* dict.get(key, default)
Get(map, key, default) == IF key \in DOMAIN map THEN map[key] ELSE default

\* --------------------------------------------------------------- columns
\* A column of a DataFrame is its dtype, whether it holds a null, and (for an
\* object column) whether pd.to_datetime accepts its values.
Dtypes == {"int64", "float64", "object", "datetime64[ns]", "bool", "timedelta64[ns]"}

\* The columns pandas can produce from a sheet: an int64 or a bool column has
\* no null (pandas reads such a column with a hole as float64 or object).
Columns ==
  { c \in [dtype : Dtypes, hasNull : BOOLEAN, parses : BOOLEAN] :
      /\ c.dtype \in {"int64", "bool"} => ~c.hasNull
      /\ c.dtype # "object" => ~c.parses }

\* The DataFrames of a sheet: every one-column frame, and the two-column
\* frames over an integer column, a timestamp column and a float column with
\* a null.
PairColumns ==
  { [dtype |-> "int64", hasNull |-> FALSE, parses |-> FALSE],
    [dtype |-> "datetime64[ns]", hasNull |-> FALSE, parses |-> FALSE],
    [dtype |-> "float64", hasNull |-> TRUE, parses |-> FALSE] }

DataFrames == [1..1 -> Columns] \cup [1..2 -> PairColumns]

infer_sql_type_nofallback(col_series, sql_types_map) ==
  IF col_series.hasNull
    THEN Get(sql_types_map, "object", DEFAULT_TEXT)
    ELSE Get(sql_types_map, col_series.dtype, << >>)

\* infer_sql_type without the null test.
infer_sql_type_nonull(col_series, sql_types_map) ==
  IF col_series.dtype \in DOMAIN sql_types_map
    THEN sql_types_map[col_series.dtype]
    ELSE Get(sql_types_map, "object", DEFAULT_TEXT)

\* infer_sql_type(col_series, sql_types_map)
infer_sql_type(col_series, sql_types_map) ==
  IF col_series.hasNull
    THEN Get(sql_types_map, "object", DEFAULT_TEXT)
    ELSE IF col_series.dtype \in DOMAIN sql_types_map
           THEN sql_types_map[col_series.dtype]
           ELSE Get(sql_types_map, "object", DEFAULT_TEXT)

\* df[col] = pd.to_datetime(df[col]) for an object column, kept on success
ReparseColumn(c) ==
  IF c.dtype = "object" /\ c.parses
    THEN [dtype |-> "datetime64[ns]", hasNull |-> c.hasNull, parses |-> FALSE]
    ELSE c

CoercionRuleNoString(col_type) ==
  LET u == Upper(col_type) IN
  IF \/ Contains(u, <<"C","H","A","R">>)
     \/ Contains(u, <<"T","E","X","T">>)
     \/ Contains(u, <<"V","A","R","C","H","A","R">>)
    THEN "stringify"
    ELSE IF \/ Contains(u, <<"D","A","T","E">>)
            \/ Contains(u, <<"T","I","M","E","S","T","A","M","P">>)
           THEN "isoformat"
           ELSE "passthrough"

\* The coercion rule process_excel_files selects from the type string.
CoercionRule(col_type) ==
  LET u == Upper(col_type) IN
  IF \/ Contains(u, <<"C","H","A","R">>)
     \/ Contains(u, <<"T","E","X","T">>)
     \/ Contains(u, <<"V","A","R","C","H","A","R">>)
     \/ Contains(u, <<"S","T","R","I","N","G">>)
    THEN "stringify"
    ELSE IF \/ Contains(u, <<"D","A","T","E">>)
            \/ Contains(u, <<"T","I","M","E","S","T","A","M","P">>)
           THEN "isoformat"
           ELSE "passthrough"

\* The column after its coercion: str(x) and x.isoformat() both leave a column
\* of Python strings (dtype object); pass-through keeps the column.
CoerceColumn(c, col_type) ==
  IF CoercionRule(col_type) \in {"stringify", "isoformat"}
    THEN [dtype |-> "object", hasNull |-> c.hasNull, parses |-> FALSE]
    ELSE c

\* The column types create_table declares: infer_sql_type on each column of
\* the DataFrame it is handed.
CreateColumns(db, frame) ==
  [i \in DOMAIN frame |-> infer_sql_type(frame[i], SQL_TYPE_MAPPING[db])]

\* ------------------------------------------------------------------ state
VARIABLES
  \* pipeline B: DBHandler and process_excel_files
  db_type,           \* DBHandler.db_type
  drop_table,        \* DBHandler.drop_table
  truncate_table,    \* DBHandler.truncate_table
  tables,            \* the database: catalog name -> rows held (sheet numbers; 0 = rows from before the run)
  tables_at_start,   \* the database when the run started
  tables_before,     \* the database when the current sheet was read
  processed_tables,  \* processed_tables of process_excel_files
  sheet_names,       \* the sheet names read so far, in order
  sheet_tables,      \* the table named by the INSERT of each sheet loaded so far
  sheet_name,        \* sheet_name of the current iteration
  raw_df,            \* the DataFrame as xls.parse returned it
  df,                \* df after the coercion loop
  col_types,         \* col_type of each column, as inferred in the coercion loop
  table_name,        \* table_name of the current iteration
  stmts,             \* DROP/CREATE/TRUNCATE/INSERT executed for the current sheet, in order
  pc,                \* position in the main of load_excel.py and in process_excel_files
  argv,              \* sys.argv[1], or NoArgv
  argv_isfile,       \* os.path.isfile(sys.argv[1])
  base_path,         \* input_path of the [app] section of config.ini
  zip_exists,        \* os.path.isfile(base_path + '.zip')
  xlsx_exists,       \* os.path.isfile(base_path + '.xlsx')
  zip_mtime,         \* os.path.getmtime(base_path + '.zip')
  xlsx_mtime,        \* os.path.getmtime(base_path + '.xlsx')
  input_path,        \* the input main settled on
  zip_entries,       \* names of the files in the archive at input_path
  excel_files,       \* what get_excel_files_from_input returned
  input_error,       \* the exception that ended the main before the load
  conn_log,          \* what the connection was asked so far: statements and commits
  committed,         \* the tables as of the last commit
  \* pipeline A: main of extract_from_idmc.py
  a_pc,              \* position in main
  poller,            \* check_job_status: not called, polling, returned or raised
  calls,             \* the requests made so far, in order
  statuses,          \* what each status poll returned, in order
  waits,             \* time.sleep calls made by check_job_status
  slept,             \* total time slept
  a_error,           \* the exception that ended the run, if any
  export_filename,   \* the export_filename setting of config.ini
  content_disposition, \* the Content-Disposition header of the download response
  written,           \* names of the files download_export_file wrote
  downloaded_file,   \* what download_export_file returned
  login_response,    \* the response to the login request
  session,           \* what login returned: session id and organisation id
  results            \* how each request of calls ended, in the same order

varsIn == << argv, argv_isfile, base_path, zip_exists, xlsx_exists, zip_mtime,
             xlsx_mtime, input_path, zip_entries, excel_files, input_error >>

varsB == << db_type, drop_table, truncate_table, tables, tables_at_start,
            tables_before, processed_tables, sheet_names, sheet_tables, sheet_name, raw_df, df,
            col_types, table_name, stmts, pc, conn_log, committed, varsIn >>

varsDl == << export_filename, content_disposition, written, downloaded_file >>

varsLg == << login_response, session >>

varsA == << a_pc, poller, calls, statuses, waits, slept, a_error, varsDl, varsLg,
            results >>

vars == << varsB, varsA >>

\* ------------------------------------------------------------ pipeline B
\* Sheet names of the workbooks: plain, differing in case only, with leading
\* whitespace, and with an inner tab and an inner space.
SheetNames ==
  { <<"a">>, <<"A">>, <<" ", "a">>, <<"a", "\t", " ", "b">> }

\* Tables that may exist before the run.
PreexistingNames == { <<"a">>, <<"A">> }

\* The name under which the database keeps the table that a statement names
\* as "table_name".  A quoted identifier is kept as written; Databricks keeps
\* table names in lower case, which is why table_exists compares in lower
\* case for it.
CatalogName(db, name) == IF db = "databricks" THEN Lower(name) ELSE name

\* DBHandler.table_exists: the catalog query of each dialect, answered by the
\* database.  The schema is taken to be configured as the catalog spells it.
table_exists(db, catalog, table) ==
  CASE db = "oracle" -> Upper(table) \in catalog
    [] db = "databricks" -> Lower(table) \in { Lower(t) : t \in catalog }
    [] OTHER -> table \in catalog

CommittedAfterNoCommit(committed_db, session_db, ok) == committed_db

\* what is committed after a statement method of DBHandler: conn.commit()
\* makes the work of the session durable when execute did not raise; when it
\* raised nothing is committed and nothing is rolled back
CommittedAfter(committed_db, session_db, ok) ==
  IF ok THEN session_db ELSE committed_db

ExecuteNoCommit(log, op, ok) == Append(log, op)

\* self.cursor.execute(sql); self.conn.commit() as the statement methods of
\* DBHandler do it: the commit is reached when execute did not raise
ExecuteAndCommit(log, op, ok) ==
  IF ok THEN log \o << op, "COMMIT" >> ELSE Append(log, op)

\* One executed statement.
Stmt(op, table, cols) == [op |-> op, table |-> table, cols |-> cols]

\* ------------------------------------------------ the input of pipeline B

ZipExt == << ".", "z", "i", "p" >>

XlsExt == << ".", "x", "l", "s" >>

XlsxExt == << ".", "x", "l", "s", "x" >>

\* str.endswith(suffix)
EndsWith(s, suffix) ==
  /\ Len(s) >= Len(suffix)
  /\ SubSeq(s, Len(s) - Len(suffix) + 1, Len(s)) = suffix

\* no sys.argv[1]
NoArgv == << >>

MaxMtime == 3

\* find_input_file raised FileNotFoundError
NotFound == << "FileNotFoundError" >>

find_input_file_older(base, zip_there, xlsx_there, zip_m, xlsx_m) ==
  IF zip_there /\ xlsx_there
    THEN IF zip_m < xlsx_m THEN base \o ZipExt ELSE base \o XlsxExt
    ELSE IF zip_there THEN base \o ZipExt
    ELSE IF xlsx_there THEN base \o XlsxExt
    ELSE NotFound

\* find_input_file(base_path), given what isfile and getmtime answer
find_input_file(base, zip_there, xlsx_there, zip_m, xlsx_m) ==
  IF zip_there /\ xlsx_there
    THEN IF zip_m > xlsx_m THEN base \o ZipExt ELSE base \o XlsxExt
    ELSE IF zip_there THEN base \o ZipExt
    ELSE IF xlsx_there THEN base \o XlsxExt
    ELSE NotFound

IsExcelNameXlsxOnly(file) ==
  EndsWith(Lower(file), XlsxExt)

\* file.lower().endswith(('.xls', '.xlsx'))
IsExcelName(file) ==
  EndsWith(Lower(file), XlsExt) \/ EndsWith(Lower(file), XlsxExt)

\* os.path.join(root, file) for a file extracted under the temporary directory
TempPath(file) == << "tmp/" >> \o file

\* get_excel_files_from_input(input_path) for an existing file input_path: the
\* list it returns, or that it raised
get_excel_files_from_input(path, entries) ==
  IF EndsWith(Lower(path), ZipExt)
    THEN [raised |-> FALSE,
          files |-> { TempPath(file) : file \in { e \in entries : IsExcelName(e) } }]
    ELSE IF IsExcelName(path)
           THEN [raised |-> FALSE, files |-> {path}]
           ELSE [raised |-> TRUE, files |-> {}]

\* names of files an archive may hold
EntryNames ==
  { << "a" >> \o XlsxExt, << "b", ".", "X", "L", "S" >>, << "c", ".", "t", "x", "t" >> }

\* inputs the main may settle on: existing files
InputPaths ==
  { << "b" >> \o ZipExt, << "b", ".", "Z", "I", "P" >>, << "b" >> \o XlsxExt,
    << "b", ".", "X", "L", "S" >>, << "b", ".", "t", "x", "t" >> }

\* the input of runs that start at process_excel_files: one workbook
OneWorkbook ==
  /\ argv = NoArgv
  /\ argv_isfile = FALSE
  /\ base_path = << "b" >>
  /\ zip_exists = FALSE
  /\ xlsx_exists = TRUE
  /\ zip_mtime = 0
  /\ xlsx_mtime = 1
  /\ input_path = << "b" >> \o XlsxExt
  /\ zip_entries = {}
  /\ excel_files = {<< "b" >> \o XlsxExt}
  /\ input_error = "none"

\* the configuration and the database when the run starts
DbAtStart ==
  /\ db_type \in Dialects
  /\ drop_table \in BOOLEAN
  /\ truncate_table \in BOOLEAN
  /\ \E pre \in SUBSET PreexistingNames :
       tables = [n \in { CatalogName(db_type, p) : p \in pre } |-> {0}]
  /\ tables_at_start = tables
  /\ tables_before = tables
  /\ processed_tables = {}
  /\ sheet_names = <<>>
  /\ sheet_tables = <<>>
  /\ sheet_name = <<>>
  /\ raw_df = <<>>
  /\ df = <<>>
  /\ col_types = <<>>
  /\ table_name = <<>>
  /\ stmts = <<>>
  /\ conn_log = <<>>
  /\ committed = tables

InitB ==
  /\ DbAtStart
  /\ OneWorkbook
  /\ pc = "loop"

IdleA ==
  /\ a_pc = "idle"
  /\ poller = "not called"
  /\ calls = <<>>
  /\ statuses = <<>>
  /\ waits = 0
  /\ slept = 0
  /\ a_error = "none"
  /\ export_filename = <<>>
  /\ content_disposition = <<>>
  /\ written = {}
  /\ downloaded_file = <<>>
  /\ login_response = <<>>
  /\ session = <<>>
  /\ results = <<>>

\* for sheet_name in xls.sheet_names: parse the sheet, reparse object columns
\* as timestamps, infer each column's type and coerce it, derive the table name.
ReadSheet ==
  /\ pc = "loop"
  /\ excel_files # {}
  /\ Len(sheet_names) < MaxSheets
  /\ \E name \in SheetNames, frame \in DataFrames :
       LET reparsed == [i \in DOMAIN frame |-> ReparseColumn(frame[i])]
           types == [i \in DOMAIN frame |->
                       infer_sql_type(reparsed[i], SQL_TYPE_MAPPING[db_type])]
       IN /\ sheet_name' = name
          /\ sheet_names' = Append(sheet_names, name)
          /\ raw_df' = frame
          /\ col_types' = types
          /\ df' = [i \in DOMAIN frame |-> CoerceColumn(reparsed[i], types[i])]
          /\ table_name' = NormalizeName(name)
  /\ tables_before' = tables
  /\ stmts' = <<>>
  /\ pc' = "exists"
  /\ UNCHANGED << db_type, drop_table, truncate_table, tables, tables_at_start,
                  processed_tables, sheet_tables, conn_log, committed >>
  /\ UNCHANGED varsA
  /\ UNCHANGED varsIn

\* if db_handler.table_exists(table_name): ... else: ...
TableExists ==
  /\ pc = "exists"
  /\ pc' = IF table_exists(db_type, DOMAIN tables, table_name)
             THEN IF drop_table
                    THEN IF table_name \notin processed_tables
                           THEN "drop" ELSE "insert"
                    ELSE IF truncate_table /\ table_name \notin processed_tables
                           THEN "truncate" ELSE "insert"
             ELSE "create"
  /\ UNCHANGED << db_type, drop_table, truncate_table, tables, tables_at_start, tables_before,
                  processed_tables, sheet_names, sheet_tables, sheet_name,
                  raw_df, df, col_types, table_name, stmts >>
  /\ conn_log' = Append(conn_log, "QUERY")
  /\ UNCHANGED committed
  /\ UNCHANGED varsA
  /\ UNCHANGED varsIn

\* db_handler.drop_table_if_needed(table_name); processed_tables.add(table_name)
\* DROP TABLE of a table the database does not hold raises.
DropTable ==
  /\ pc = "drop"
  /\ LET cn == CatalogName(db_type, table_name) IN
     IF ~drop_table
       THEN /\ pc' = "create"
            /\ processed_tables' = processed_tables \cup {table_name}
            /\ UNCHANGED << tables, stmts, conn_log, committed >>
       ELSE /\ stmts' = Append(stmts, Stmt("DROP", table_name, <<>>))
            /\ conn_log' = ExecuteAndCommit(conn_log, "DROP", cn \in DOMAIN tables)
            /\ IF cn \in DOMAIN tables
                 THEN /\ tables' = [n \in DOMAIN tables \ {cn} |-> tables[n]]
                      /\ committed' = CommittedAfter(committed, tables', TRUE)
                      /\ processed_tables' = processed_tables \cup {table_name}
                      /\ pc' = "create"
                 ELSE /\ pc' = "aborted"
                      /\ committed' = CommittedAfter(committed, tables, FALSE)
                      /\ UNCHANGED << tables, processed_tables >>
  /\ UNCHANGED << db_type, drop_table, truncate_table, tables_at_start, tables_before,
                  sheet_names, sheet_tables, sheet_name, raw_df, df, col_types,
                  table_name >>
  /\ UNCHANGED varsA
  /\ UNCHANGED varsIn

\* db_handler.create_table(table_name, df), and processed_tables.add on the
\* branch of a table that does not exist.  CREATE TABLE of a table the
\* database holds already raises.
CreateTable ==
  /\ pc = "create"
  /\ LET cn == CatalogName(db_type, table_name) IN
     /\ stmts' = Append(stmts, Stmt("CREATE", table_name, CreateColumns(db_type, df)))
     /\ conn_log' = ExecuteAndCommit(conn_log, "CREATE", cn \notin DOMAIN tables)
     /\ IF cn \notin DOMAIN tables
          THEN /\ tables' = [n \in DOMAIN tables \cup {cn} |->
                               IF n = cn THEN {} ELSE tables[n]]
               /\ committed' = CommittedAfter(committed, tables', TRUE)
               /\ processed_tables' = processed_tables \cup {table_name}
               /\ pc' = "insert"
          ELSE /\ pc' = "aborted"
               /\ committed' = CommittedAfter(committed, tables, FALSE)
               /\ UNCHANGED << tables, processed_tables >>
  /\ UNCHANGED << db_type, drop_table, truncate_table, tables_at_start, tables_before,
                  sheet_names, sheet_tables, sheet_name, raw_df, df, col_types,
                  table_name >>
  /\ UNCHANGED varsA
  /\ UNCHANGED varsIn

\* db_handler.truncate_table_if_needed(table_name); processed_tables.add(table_name)
TruncateTable ==
  /\ pc = "truncate"
  /\ LET cn == CatalogName(db_type, table_name) IN
     IF drop_table \/ ~truncate_table
       THEN /\ pc' = "insert"
            /\ processed_tables' = processed_tables \cup {table_name}
            /\ UNCHANGED << tables, stmts, conn_log, committed >>
       ELSE /\ stmts' = Append(stmts, Stmt("TRUNCATE", table_name, <<>>))
            /\ conn_log' = ExecuteAndCommit(conn_log, "TRUNCATE", cn \in DOMAIN tables)
            /\ IF cn \in DOMAIN tables
                 THEN /\ tables' = [tables EXCEPT ![cn] = {}]
                      /\ committed' = CommittedAfter(committed, tables', TRUE)
                      /\ processed_tables' = processed_tables \cup {table_name}
                      /\ pc' = "insert"
                 ELSE /\ pc' = "aborted"
                      /\ committed' = CommittedAfter(committed, tables, FALSE)
                      /\ UNCHANGED << tables, processed_tables >>
  /\ UNCHANGED << db_type, drop_table, truncate_table, tables_at_start, tables_before,
                  sheet_names, sheet_tables, sheet_name, raw_df, df, col_types,
                  table_name >>
  /\ UNCHANGED varsA
  /\ UNCHANGED varsIn

\* db_handler.insert_data(table_name, df): the rows of the sheet, in one
\* executemany.  INSERT into a table the database does not hold raises.  The
\* DataFrame goes out of scope when the iteration ends.
InsertData ==
  /\ pc = "insert"
  /\ LET cn == CatalogName(db_type, table_name) IN
     /\ stmts' = Append(stmts, Stmt("INSERT", table_name, <<>>))
     /\ conn_log' = ExecuteAndCommit(conn_log, "INSERT", cn \in DOMAIN tables)
     /\ IF cn \in DOMAIN tables
          THEN /\ tables' = [tables EXCEPT ![cn] = @ \cup {Len(sheet_names)}]
               /\ committed' = CommittedAfter(committed, tables', TRUE)
               /\ sheet_tables' = Append(sheet_tables, table_name)
               /\ raw_df' = <<>>
               /\ df' = <<>>
               /\ col_types' = <<>>
               /\ pc' = "loop"
          ELSE /\ pc' = "aborted"
               /\ committed' = CommittedAfter(committed, tables, FALSE)
               /\ UNCHANGED << tables, sheet_tables, raw_df, df, col_types >>
  /\ UNCHANGED << db_type, drop_table, truncate_table, tables_at_start, tables_before,
                  processed_tables, sheet_names, sheet_name, table_name >>
  /\ UNCHANGED varsA
  /\ UNCHANGED varsIn

\* The for loops run out of files and sheets.
Finish ==
  /\ pc = "loop"
  /\ pc' = "done"
  /\ UNCHANGED << db_type, drop_table, truncate_table, tables, tables_at_start, tables_before,
                  processed_tables, sheet_names, sheet_tables, sheet_name,
                  raw_df, df, col_types, table_name, stmts, conn_log, committed >>
  /\ UNCHANGED varsA
  /\ UNCHANGED varsIn

Init == InitB /\ IdleA

Next ==
  \/ ReadSheet
  \/ TableExists
  \/ DropTable
  \/ CreateTable
  \/ TruncateTable
  \/ InsertData
  \/ Finish

Spec == Init /\ [][Next]_vars

\* A statement raises for a reason of its own (the connection is lost, a
\* value does not fit its column, a permission is missing): execute raised,
\* the commit after it is not reached, nothing catches the exception and the
\* run is over.  The statement that raised has changed no table.
StatementFails ==
  /\ pc \in {"exists", "drop", "create", "truncate", "insert"}
  /\ LET op == CASE pc = "exists" -> "QUERY"
                  [] pc = "drop" -> "DROP"
                  [] pc = "create" -> "CREATE"
                  [] pc = "truncate" -> "TRUNCATE"
                  [] pc = "insert" -> "INSERT"
     IN  /\ conn_log' = ExecuteAndCommit(conn_log, op, FALSE)
         /\ stmts' = IF op = "QUERY" THEN stmts
                     ELSE Append(stmts, Stmt(op, table_name,
                                             IF op = "CREATE"
                                               THEN CreateColumns(db_type, df)
                                               ELSE <<>>))
  /\ committed' = CommittedAfter(committed, tables, FALSE)
  /\ pc' = "aborted"
  /\ UNCHANGED << db_type, drop_table, truncate_table, tables, tables_at_start, tables_before,
                  processed_tables, sheet_names, sheet_tables, sheet_name,
                  raw_df, df, col_types, table_name >>
  /\ UNCHANGED varsA
  /\ UNCHANGED varsIn

NextFail ==
  \/ Next
  \/ StatementFails

\* the runs of process_excel_files in which any statement may raise
SpecFail == Init /\ [][NextFail]_vars

\* ------------------------------------------------- pipeline B: properties
\* The statement kinds executed for the current sheet, in order.
Ops == [i \in DOMAIN stmts |-> stmts[i].op]

\* A sheet has been read, and stmts are the statements of that sheet.
SheetRead == Len(sheet_names) > 0

\* No earlier sheet of the run maps to the table name of the current sheet.
FirstOfRun ==
  \A k \in 1..(Len(sheet_names) - 1) : NormalizeName(sheet_names[k]) # table_name

\* The table the current sheet names was in the database when the sheet was read.
ExistedBefore == CatalogName(db_type, table_name) \in DOMAIN tables_before

\* The table the current sheet names was in the database when the run started.
ExistedAtStart == CatalogName(db_type, table_name) \in DOMAIN tables_at_start

\* C1: DROP, CREATE and TRUNCATE for a table name are executed only for the
\* first sheet of the run that maps to the name; a later sheet that maps to
\* it executes an INSERT and nothing else.
C1_LaterSheetsOnlyInsert ==
  (SheetRead /\ ~FirstOfRun) =>
    /\ \A i \in DOMAIN stmts : stmts[i].op = "INSERT"
    /\ pc \in {"loop", "done"} => Ops = <<"INSERT">>
    /\ pc # "aborted"

\* C2: with drop_table and the table in the database at the start of the
\* run, the first sheet that maps to the name executes DROP, CREATE, INSERT in
\* that order, and a later sheet that maps to it executes a single INSERT.
C2_DropModeFirstThenAppend ==
  (SheetRead /\ drop_table /\ ExistedAtStart) =>
    IF FirstOfRun
      THEN /\ pc = "insert" => Ops = <<"DROP", "CREATE">>
           /\ pc \in {"loop", "done"} => Ops = <<"DROP", "CREATE", "INSERT">>
           /\ pc # "aborted"
      ELSE /\ \A i \in DOMAIN stmts : stmts[i].op = "INSERT"
           /\ pc \in {"loop", "done"} => Ops = <<"INSERT">>
           /\ pc # "aborted"

\* C3: when the run completes without error, the table each sheet was loaded
\* into holds the rows of that sheet: nothing a later sheet executed removed
\* them.
C3_RowsOfEverySheetKept ==
  pc = "done" =>
    \A k \in 1..Len(sheet_tables) :
      /\ CatalogName(db_type, sheet_tables[k]) \in DOMAIN tables
      /\ k \in tables[CatalogName(db_type, sheet_tables[k])]

\* C4: TRUNCATE is executed for a sheet exactly when the table exists, drop_table
\* is off, truncate_table is on and the sheet is the first of the run that maps
\* to the table; it comes once, before the INSERT, and never with drop_table on.
C4_TruncateExactlyWhen ==
  SheetRead =>
    LET due == ExistedBefore /\ ~drop_table /\ truncate_table /\ FirstOfRun IN
    /\ (\E i \in DOMAIN stmts : stmts[i].op = "TRUNCATE") => due
    /\ (due /\ pc \in {"insert", "loop", "done", "aborted"}) => Ops[1] = "TRUNCATE"
    /\ \A i \in DOMAIN stmts : stmts[i].op = "TRUNCATE" => i = 1
    /\ drop_table => \A i \in DOMAIN stmts : stmts[i].op # "TRUNCATE"

\* C5: with neither drop_table nor truncate_table, a sheet whose table is in
\* the database executes an INSERT and no other statement, and every row the
\* table held before the sheet is still in it.
C5_AppendOnlyKeepsRows ==
  (SheetRead /\ ~drop_table /\ ~truncate_table /\ ExistedBefore) =>
    /\ \A i \in DOMAIN stmts : stmts[i].op = "INSERT"
    /\ \A n \in DOMAIN tables_before :
         n \in DOMAIN tables /\ tables_before[n] \subseteq tables[n]

\* The type the dialect map gives a column as the sheet holds it (object
\* columns reparsed as timestamps where they parse).
TypeAsRead(c) == infer_sql_type(ReparseColumn(c), SQL_TYPE_MAPPING[db_type])

\* C8: a CREATE TABLE declares each column with the SQL type inferred from the
\* column as read from the sheet; a timestamp column without a null is declared
\* with the timestamp type of the dialect.
C8_CreateDeclaresInferredTypes ==
  \A i \in DOMAIN stmts :
    (stmts[i].op = "CREATE" /\ raw_df # <<>>) =>
      /\ DOMAIN stmts[i].cols = DOMAIN raw_df
      /\ \A j \in DOMAIN raw_df :
           /\ stmts[i].cols[j] = TypeAsRead(raw_df[j])
           /\ (raw_df[j].dtype = "datetime64[ns]" /\ ~raw_df[j].hasNull) =>
                stmts[i].cols[j] = SQL_TYPE_MAPPING[db_type]["datetime64[ns]"]

\* C9: for every dialect, a column that holds a null gets the text type of the
\* dialect ('object' in its map), whatever its dtype: both where the coercion
\* loop infers the type and where create_table declares it.
C9_NullForcesText ==
  /\ \A j \in DOMAIN col_types :
       ReparseColumn(raw_df[j]).hasNull =>
         col_types[j] = SQL_TYPE_MAPPING[db_type]["object"]
  /\ \A i \in DOMAIN stmts :
       (stmts[i].op = "CREATE" /\ df # <<>>) =>
         \A j \in DOMAIN df :
           df[j].hasNull => stmts[i].cols[j] = SQL_TYPE_MAPPING[db_type]["object"]

\* C9 happens: a float column with a null has been given the text type, and a
\* CREATE TABLE has declared it so.
C9_Witness ==
  /\ pc = "insert"
  /\ \E i \in DOMAIN stmts, j \in DOMAIN raw_df :
       /\ stmts[i].op = "CREATE"
       /\ raw_df[j].dtype = "float64"
       /\ raw_df[j].hasNull
       /\ col_types[j] = SQL_TYPE_MAPPING[db_type]["object"]
       /\ col_types[j] # SQL_TYPE_MAPPING[db_type]["float64"]
       /\ stmts[i].cols[j] = SQL_TYPE_MAPPING[db_type]["object"]

\* The positions of a name that hold no whitespace.
InkPositions(s) == { i \in 1..Len(s) : ~IsSpace(s[i]) }

\* The name between its first and last non-whitespace character, each space
\* character in it replaced by an underscore and every other character kept.
TrimmedUnderscored(s) ==
  IF InkPositions(s) = {}
    THEN <<>>
    ELSE LET lo == CHOOSE i \in InkPositions(s) : \A k \in InkPositions(s) : i <= k
             hi == CHOOSE i \in InkPositions(s) : \A k \in InkPositions(s) : k <= i
         IN [i \in 1..(hi - lo + 1) |->
               IF s[lo + i - 1] = " " THEN "_" ELSE s[lo + i - 1]]

\* The name with every whitespace character replaced by an underscore.
AllWhitespaceUnderscored(s) == [i \in 1..Len(s) |-> IF IsSpace(s[i]) THEN "_" ELSE s[i]]

\* C10 as stated: the table name is the sheet name with every whitespace
\* character replaced by an underscore, and two sheets are loaded into the
\* same table exactly when their names so normalized are equal.
C10_EveryWhitespaceReplaced ==
  /\ SheetRead => table_name = AllWhitespaceUnderscored(sheet_name)
  /\ \A j, k \in 1..Len(sheet_tables) :
       (sheet_tables[j] = sheet_tables[k]) <=>
         (AllWhitespaceUnderscored(sheet_names[j]) = AllWhitespaceUnderscored(sheet_names[k]))

\* C10 amended: the table name is the sheet name without its leading and
\* trailing whitespace and with each remaining space character replaced by an
\* underscore (other whitespace inside the name is kept), and the INSERTs of two
\* sheets name the same table exactly when their names so derived are equal.
C10_TrimmedSpacesReplaced ==
  /\ SheetRead => table_name = TrimmedUnderscored(sheet_name)
  /\ \A i \in DOMAIN stmts : stmts[i].table = TrimmedUnderscored(sheet_name)
  /\ \A j, k \in 1..Len(sheet_tables) :
       (sheet_tables[j] = sheet_tables[k]) <=>
         (TrimmedUnderscored(sheet_names[j]) = TrimmedUnderscored(sheet_names[k]))

\* C10 happens: a sheet named with a leading blank and a sheet named without it
\* have both been loaded, and their INSERTs name the same table.
C10_Witness ==
  /\ Len(sheet_tables) = 2
  /\ sheet_names[1] = <<" ", "a">>
  /\ sheet_names[2] = <<"a">>
  /\ sheet_tables[1] = <<"a">>
  /\ sheet_tables[2] = <<"a">>

\* ------------------------------------------------------------ pipeline A
\* poll_interval=10, the default of check_job_status
poll_interval == 10

\* What a status poll can bring back: a transport error (raise_for_status
\* raises), or a body whose "status" is one of these; NONE is a body without
\* the field.
JobStatuses == {"COMPLETED", "FAILED", "CANCELED", "ERROR", "RUNNING", "PENDING", "NONE"}

PollOutcomes == JobStatuses \cup {"HTTP_ERROR"}

\* The exception that ends a run.
Exc(kind, status) == [kind |-> kind, status |-> status]

NoError == Exc("none", "none")

\* The branch of check_job_status with a missing status taken for a failure.
StatusBranchMissingRaises(status) ==
  IF status = "COMPLETED"
    THEN "break"
    ELSE IF status \in {"FAILED", "CANCELED", "ERROR", "NONE"} THEN "raise" ELSE "sleep"

\* The branch of check_job_status with CANCELED left out of the failures.
StatusBranchCanceledWaits(status) ==
  IF status = "COMPLETED"
    THEN "break"
    ELSE IF status \in {"FAILED", "ERROR"} THEN "raise" ELSE "sleep"

\* The branch of check_job_status with FAILED taken for the end of the job.
StatusBranchFailedBreaks(status) ==
  IF status \in {"COMPLETED", "FAILED"}
    THEN "break"
    ELSE IF status \in {"CANCELED", "ERROR"} THEN "raise" ELSE "sleep"

\* if status == "COMPLETED": break / elif status in (...): raise / else: sleep
StatusBranch(status) ==
  IF status = "COMPLETED"
    THEN "break"
    ELSE IF status \in {"FAILED", "CANCELED", "ERROR"} THEN "raise" ELSE "sleep"

AfterPollRetries(outcome) ==
  IF outcome = "HTTP_ERROR" THEN "sleep"
  ELSE IF StatusBranch(outcome) = "break" THEN "download"
  ELSE IF StatusBranch(outcome) = "raise" THEN "failed"
  ELSE "sleep"

\* where main stands after one turn of the loop of check_job_status:
\* raise_for_status raised, or the branch on the status
AfterPoll(outcome) ==
  IF outcome = "HTTP_ERROR" THEN "failed"
  ELSE IF StatusBranch(outcome) = "break" THEN "download"
  ELSE IF StatusBranch(outcome) = "raise" THEN "failed"
  ELSE "sleep"

IdleB ==
  /\ db_type = "postgres"
  /\ drop_table = FALSE
  /\ truncate_table = FALSE
  /\ tables = << >>
  /\ tables_at_start = << >>
  /\ tables_before = << >>
  /\ processed_tables = {}
  /\ sheet_names = <<>>
  /\ sheet_tables = <<>>
  /\ sheet_name = <<>>
  /\ raw_df = <<>>
  /\ df = <<>>
  /\ col_types = <<>>
  /\ table_name = <<>>
  /\ stmts = <<>>
  /\ conn_log = <<>>
  /\ committed = << >>
  /\ pc = "idle"
  /\ argv = NoArgv
  /\ argv_isfile = FALSE
  /\ base_path = << >>
  /\ zip_exists = FALSE
  /\ xlsx_exists = FALSE
  /\ zip_mtime = 0
  /\ xlsx_mtime = 0
  /\ input_path = << >>
  /\ zip_entries = {}
  /\ excel_files = {}
  /\ input_error = "none"

\* A header value is a text over these symbols; the literal filename= of the
\* pattern is one symbol, the double quote another, x stands for any other
\* character.
HeaderSymbols == {"filename=", "\"", "x"}

MaxHeaderLen == 4

\* response.headers.get('Content-Disposition') returns None without the header
NoHeader == << "None" >>

Headers ==
  {NoHeader} \cup UNION {[1..n -> HeaderSymbols] : n \in 0..MaxHeaderLen}

\* the export_filename setting; the configuration test refuses an empty one
ExportNames == {<< "e" >>, << "x" >>}

\* [^"]+ taken greedily from position k: the position after the last
\* character that is not a double quote
RECURSIVE NameEnd(_, _)
NameEnd(s, k) ==
  IF k > Len(s) \/ s[k] = "\"" THEN k ELSE NameEnd(s, k + 1)

\* the pattern filename="([^"]+)" tried at position i: the group, or << >>
MatchAt(s, i) ==
  IF i + 1 <= Len(s) /\ s[i] = "filename=" /\ s[i + 1] = "\""
    THEN LET e == NameEnd(s, i + 2)
         IN  IF e > i + 2 /\ e <= Len(s) THEN SubSeq(s, i + 2, e - 1) ELSE << >>
    ELSE << >>

\* re.search(r'filename="([^"]+)"', s): the leftmost match from position i
\* on, its group 1, or << >> for no match
RECURSIVE re_search(_, _)
re_search(s, i) ==
  IF i > Len(s) THEN << >>
  ELSE IF MatchAt(s, i) # << >> THEN MatchAt(s, i)
  ELSE re_search(s, i + 1)

ResolveFilenameNoSuffix(header, export_filename_base) ==
  LET filename == IF header # NoHeader /\ header # << >>
                    THEN re_search(header, 1)
                    ELSE << >>
  IN  IF filename = << >> THEN export_filename_base ELSE filename

\* the file name download_export_file settles on
ResolveFilename(header, export_filename_base) ==
  LET filename == IF header # NoHeader /\ header # << >>
                    THEN re_search(header, 1)
                    ELSE << >>
  IN  IF filename = << >> THEN export_filename_base \o << ".bin" >> ELSE filename

\* no login response yet
NoResponse == << >>

\* a field of the login response body: absent (data.get gives None), the
\* empty string, or a value
SessionIdValues == {"None", "", "sid"}

OrgIdValues == {"None", "", "org"}

\* the responses to the login request; a body is read only from a response
\* that raise_for_status lets through
LoginResponses ==
  { r \in [http_ok : BOOLEAN, sessionId : SessionIdValues, currentOrgId : OrgIdValues] :
      ~r.http_ok => (r.sessionId = "None" /\ r.currentOrgId = "None") }

\* not x, for a string x or None
Not(x) == x \in {"None", ""}

LoginReturnsEither(response) ==
  response.http_ok /\ ~(Not(response.sessionId) /\ Not(response.currentOrgId))

\* login gets past "if not session_id or not org_id: raise"
LoginReturns(response) ==
  response.http_ok /\ ~(Not(response.sessionId) \/ Not(response.currentOrgId))

InitA ==
  /\ a_pc = "config"
  /\ poller = "not called"
  /\ calls = <<>>
  /\ statuses = <<>>
  /\ waits = 0
  /\ slept = 0
  /\ a_error = NoError
  /\ export_filename \in ExportNames
  /\ content_disposition = NoHeader
  /\ written = {}
  /\ downloaded_file = <<>>
  /\ login_response = NoResponse
  /\ session = << >>
  /\ results = << >>
  /\ IdleB

\* main up to the configuration test: config.ini and its [idmc] section are
\* there or the run ends; then the usage beacon, then the test that the five
\* settings are set.
ReadConfig ==
  /\ a_pc = "config"
  /\ \E file_ok \in BOOLEAN, settings_ok \in BOOLEAN :
       IF ~file_ok
         THEN /\ a_pc' = "failed"
              /\ a_error' = Exc("Config", "none")
              /\ UNCHANGED << calls, results >>
         ELSE /\ calls' = Append(calls, "infaLog")
              /\ results' = Append(results, "ignored")
              /\ a_pc' = IF settings_ok THEN "login" ELSE "failed"
              /\ a_error' = IF settings_ok THEN a_error ELSE Exc("Config", "none")
  /\ UNCHANGED << poller, statuses, waits, slept >>
  /\ UNCHANGED varsDl
  /\ UNCHANGED varsLg
  /\ UNCHANGED varsB

\* session_id, org_id = login(pod, username, password): the request, then
\* raise_for_status, then the test that both fields of the body are set
Login ==
  /\ a_pc = "login"
  /\ calls' = Append(calls, "login")
  /\ \E response \in LoginResponses :
       /\ login_response' = response
       /\ IF ~response.http_ok
            THEN /\ a_pc' = "failed"
                 /\ a_error' = Exc("HTTPError", "none")
                 /\ session' = session
                 /\ results' = Append(results, "http_error")
            ELSE IF ~LoginReturns(response)
                   THEN /\ a_pc' = "failed"
                        /\ a_error' = Exc("LoginFailed", "none")
                        /\ session' = session
                        /\ results' = Append(results, "incomplete")
                   ELSE /\ a_pc' = "token"
                        /\ a_error' = a_error
                        /\ session' = << response.sessionId, response.currentOrgId >>
                        /\ results' = Append(results, "ok")
  /\ UNCHANGED << poller, statuses, waits, slept >>
  /\ UNCHANGED varsDl
  /\ UNCHANGED varsB

\* jwt_token = generate_jwt_token(pod, session_id)
GenerateJwtToken ==
  /\ a_pc = "token"
  /\ calls' = Append(calls, "token")
  /\ \E http_ok \in BOOLEAN, jwt_token \in BOOLEAN :
       /\ results' = Append(results, IF ~http_ok THEN "http_error"
                                     ELSE IF ~jwt_token THEN "incomplete" ELSE "ok")
       /\ IF ~http_ok
            THEN a_pc' = "failed" /\ a_error' = Exc("HTTPError", "none")
            ELSE IF ~jwt_token
                   THEN a_pc' = "failed" /\ a_error' = Exc("TokenFailed", "none")
                   ELSE a_pc' = "export" /\ a_error' = a_error
  /\ UNCHANGED << poller, statuses, waits, slept >>
  /\ UNCHANGED varsDl
  /\ UNCHANGED varsLg
  /\ UNCHANGED varsB

\* job_id, output_uri = start_export_job(...)
StartExportJob ==
  /\ a_pc = "export"
  /\ calls' = Append(calls, "export")
  /\ \E http_ok \in BOOLEAN, complete \in BOOLEAN :
       /\ results' = Append(results, IF ~http_ok THEN "http_error"
                                     ELSE IF ~complete THEN "incomplete" ELSE "ok")
       /\ IF ~http_ok
            THEN a_pc' = "failed" /\ a_error' = Exc("HTTPError", "none") /\ poller' = poller
            ELSE IF ~complete
                   THEN /\ a_pc' = "failed"
                        /\ a_error' = Exc("ExportFailed", "none")
                        /\ poller' = poller
                   ELSE a_pc' = "poll" /\ a_error' = a_error /\ poller' = "polling"
  /\ UNCHANGED << statuses, waits, slept >>
  /\ UNCHANGED varsDl
  /\ UNCHANGED varsLg
  /\ UNCHANGED varsB

\* check_job_status, one turn of its loop up to the branch on the status
PollStatus ==
  /\ a_pc = "poll"
  /\ Len(statuses) < MaxPolls
  /\ calls' = Append(calls, "poll")
  /\ \E outcome \in PollOutcomes :
       /\ statuses' = Append(statuses, outcome)
       /\ results' = Append(results, IF outcome = "HTTP_ERROR" THEN "http_error" ELSE "ok")
       /\ a_pc' = AfterPoll(outcome)
       /\ poller' = IF AfterPoll(outcome) = "download" THEN "returned"
                    ELSE IF AfterPoll(outcome) = "failed" THEN "raised"
                    ELSE poller
       /\ a_error' = IF AfterPoll(outcome) # "failed" THEN a_error
                     ELSE IF outcome = "HTTP_ERROR" THEN Exc("HTTPError", "none")
                     ELSE Exc("JobEnded", outcome)
  /\ UNCHANGED << waits, slept >>
  /\ UNCHANGED varsDl
  /\ UNCHANGED varsLg
  /\ UNCHANGED varsB

\* time.sleep(poll_interval)
Sleep ==
  /\ a_pc = "sleep"
  /\ waits' = waits + 1
  /\ slept' = slept + poll_interval
  /\ a_pc' = "poll"
  /\ UNCHANGED << poller, calls, statuses, a_error, results >>
  /\ UNCHANGED varsDl
  /\ UNCHANGED varsLg
  /\ UNCHANGED varsB

\* download_export_file: the response is fetched; the file name is the one the
\* Content-Disposition header quotes, or export_filename_base + ".bin"; the
\* body is written under that name and the name is returned.
DownloadExportFile ==
  /\ a_pc = "download"
  /\ calls' = Append(calls, "download")
  /\ \E http_ok \in BOOLEAN, header \in Headers :
       IF http_ok
         THEN /\ results' = Append(results, "ok")
              /\ content_disposition' = header
              /\ written' = written \cup {ResolveFilename(header, export_filename)}
              /\ downloaded_file' = ResolveFilename(header, export_filename)
              /\ a_pc' = "done"
              /\ a_error' = a_error
         ELSE /\ results' = Append(results, "http_error")
              /\ a_pc' = "failed"
              /\ a_error' = Exc("HTTPError", "none")
              /\ UNCHANGED << content_disposition, written, downloaded_file >>
  /\ UNCHANGED << poller, statuses, waits, slept, export_filename >>
  /\ UNCHANGED varsLg
  /\ UNCHANGED varsB

NextA ==
  \/ ReadConfig
  \/ Login
  \/ GenerateJwtToken
  \/ StartExportJob
  \/ PollStatus
  \/ Sleep
  \/ DownloadExportFile

SpecA == InitA /\ [][NextA]_vars

\* The script is one thread that runs each call to its end: a request returns
\* or raises, time.sleep returns.  A step that can be taken is taken.
SpecAFair == SpecA /\ WF_vars(NextA)

\* ------------------------------------------- the main of load_excel.py

\* main, lines 332-341: the command-line argument when there is one, else the
\* newer of base_path.zip and base_path.xlsx.
ResolveInput ==
  /\ pc = "main"
  /\ IF argv # NoArgv
       THEN IF ~argv_isfile
              THEN /\ pc' = "aborted"
                   /\ input_error' = "FileNotFoundError"
                   /\ UNCHANGED input_path
              ELSE /\ pc' = "expand"
                   /\ input_path' = argv
                   /\ UNCHANGED input_error
       ELSE IF base_path = << >>
              THEN /\ pc' = "aborted"
                   /\ input_error' = "Exception"
                   /\ UNCHANGED input_path
              ELSE LET found == find_input_file(base_path, zip_exists, xlsx_exists,
                                                zip_mtime, xlsx_mtime)
                   IN  IF found = NotFound
                         THEN /\ pc' = "aborted"
                              /\ input_error' = "FileNotFoundError"
                              /\ UNCHANGED input_path
                         ELSE /\ pc' = "expand"
                              /\ input_path' = found
                              /\ UNCHANGED input_error
  /\ UNCHANGED << db_type, drop_table, truncate_table, tables, tables_at_start, tables_before,
                  processed_tables, sheet_names, sheet_tables, sheet_name,
                  raw_df, df, col_types, table_name, stmts, conn_log, committed >>
  /\ UNCHANGED << argv, argv_isfile, base_path, zip_exists, xlsx_exists, zip_mtime,
                  xlsx_mtime, zip_entries, excel_files >>
  /\ UNCHANGED varsA

\* a file is absent, or there with a modification time
FileFacts(there, mtime) ==
  /\ there \in BOOLEAN
  /\ mtime \in 0..MaxMtime
  /\ there <=> mtime > 0

\* the main before it settles on its input, the database not yet touched
InitIn ==
  /\ DbAtStart
  /\ db_type = "postgres" /\ ~drop_table /\ ~truncate_table /\ tables = << >>
  /\ pc = "main"
  /\ \/ argv = NoArgv /\ argv_isfile = FALSE
     \/ argv \in InputPaths /\ argv_isfile \in BOOLEAN
  /\ base_path \in {<< >>, << "b" >>}
  /\ FileFacts(zip_exists, zip_mtime)
  /\ FileFacts(xlsx_exists, xlsx_mtime)
  /\ input_path = << >>
  /\ zip_entries = {}
  /\ excel_files = {}
  /\ input_error = "none"
  /\ IdleA

SpecIn == InitIn /\ [][ResolveInput]_vars

\* excel_files = get_excel_files_from_input(input_path)
GetExcelFiles ==
  /\ pc = "expand"
  /\ LET got == get_excel_files_from_input(input_path, zip_entries)
     IN  IF got.raised
           THEN /\ pc' = "aborted"
                /\ input_error' = "FileNotFoundError"
                /\ UNCHANGED excel_files
           ELSE /\ pc' = "loop"
                /\ excel_files' = got.files
                /\ UNCHANGED input_error
  /\ UNCHANGED << db_type, drop_table, truncate_table, tables, tables_at_start, tables_before,
                  processed_tables, sheet_names, sheet_tables, sheet_name,
                  raw_df, df, col_types, table_name, stmts, conn_log, committed >>
  /\ UNCHANGED << argv, argv_isfile, base_path, zip_exists, xlsx_exists, zip_mtime,
                  xlsx_mtime, input_path, zip_entries >>
  /\ UNCHANGED varsA

\* The main once its input is settled. The runs over an archive without a
\* workbook, and over a file that is none, start from every configuration and
\* database; the others from postgres with at most the table a.
InitMain ==
  /\ DbAtStart
  /\ pc = "expand"
  /\ argv = NoArgv
  /\ argv_isfile = FALSE
  /\ base_path = << "b" >>
  /\ zip_exists = FALSE
  /\ xlsx_exists = FALSE
  /\ zip_mtime = 0
  /\ xlsx_mtime = 0
  /\ input_path \in InputPaths
  /\ IF EndsWith(Lower(input_path), ZipExt)
       THEN zip_entries \in SUBSET EntryNames
       ELSE zip_entries = {}
  /\ excel_files = {}
  /\ input_error = "none"
  /\ \/ db_type = "postgres" /\ DOMAIN tables \subseteq {<< "a" >>}
     \/ input_path = << "b", ".", "t", "x", "t" >>
     \/ /\ EndsWith(Lower(input_path), ZipExt)
        /\ zip_entries \subseteq {<< "c", ".", "t", "x", "t" >>}
  /\ IdleA

NextMain ==
  \/ GetExcelFiles
  \/ Next

SpecMain == InitMain /\ [][NextMain]_vars

\* ------------------------------------------------- pipeline A: properties
\* The number of entries of a sequence that are in a set.
RECURSIVE CountIn(_, _)
CountIn(seq, set) ==
  IF seq = <<>>
    THEN 0
    ELSE (IF Head(seq) \in set THEN 1 ELSE 0) + CountIn(Tail(seq), set)

FailureStatuses == {"FAILED", "CANCELED", "ERROR"}

\* The statuses after which the job is still in progress.
WaitingStatuses == JobStatuses \ ({"COMPLETED"} \cup FailureStatuses)

Polls == CountIn(calls, {"poll"})

\* C6: check_job_status returns on the first poll that brings COMPLETED, having
\* waited once after each earlier poll, all of which brought a status that is
\* neither COMPLETED nor a failure; RUNNING, RUNNING, COMPLETED makes 3 polls
\* and 2 waits and then returns.
C6_ReturnsOnFirstCompleted ==
  /\ poller = "returned" <=>
       (statuses # <<>> /\ statuses[Len(statuses)] = "COMPLETED")
  /\ poller = "returned" =>
       /\ \A i \in 1..(Len(statuses) - 1) : statuses[i] \in WaitingStatuses
       /\ waits = Len(statuses) - 1
       /\ slept = poll_interval * waits
       /\ Polls = Len(statuses)
  /\ poller = "polling" =>
       /\ \A i \in 1..Len(statuses) : statuses[i] \in WaitingStatuses
       /\ waits = IF a_pc = "sleep" THEN Len(statuses) - 1 ELSE Len(statuses)
  /\ (statuses # <<>> /\ statuses[Len(statuses)] \in WaitingStatuses) =>
       /\ poller = "polling"
       /\ a_pc \in {"sleep", "poll"}
  /\ statuses = <<"RUNNING", "RUNNING", "COMPLETED">> =>
       Polls = 3 /\ waits = 2 /\ poller = "returned"

\* C6 happens: RUNNING, RUNNING, COMPLETED has been polled and the poller has
\* returned.
C6_Witness ==
  /\ statuses = <<"RUNNING", "RUNNING", "COMPLETED">>
  /\ poller = "returned"
  /\ waits = 2

\* C7: a poll that brings FAILED, CANCELED or ERROR ends check_job_status with an
\* error that carries that status; no poll and no wait comes after it, and the
\* download is never requested.
C7_FailureStatusEndsRun ==
  /\ (statuses # <<>> /\ statuses[Len(statuses)] \in FailureStatuses) =>
       /\ poller = "raised"
       /\ a_pc = "failed"
       /\ a_error = Exc("JobEnded", statuses[Len(statuses)])
       /\ calls[Len(calls)] = "poll"
       /\ Polls = Len(statuses)
       /\ waits = Len(statuses) - 1
       /\ CountIn(calls, {"download"}) = 0
  /\ \A i \in 1..(Len(statuses) - 1) : statuses[i] \notin FailureStatuses
  /\ a_error.kind = "JobEnded" =>
       (statuses # <<>> /\ a_error.status = statuses[Len(statuses)]
          /\ a_error.status \in FailureStatuses)

\* C7 happens: the second poll has brought CANCELED and the run has ended with
\* the error that carries it.
C7_Witness ==
  /\ statuses = <<"RUNNING", "CANCELED">>
  /\ a_error = Exc("JobEnded", "CANCELED")
  /\ a_pc = "failed"

\* ---------------------------------------- pipeline A: the downloaded file

\* positions i, j of header h such that h[i..j] reads filename="name" with a
\* name of at least one character and no double quote in it
QuotedFilenameAt(h, i, j) ==
  /\ i + 3 <= j /\ j <= Len(h)
  /\ h[i] = "filename=" /\ h[i + 1] = "\"" /\ h[j] = "\""
  /\ \A k \in (i + 2)..(j - 1) : h[k] # "\""

HasQuotedFilename(h) ==
  /\ h # NoHeader
  /\ \E i \in 1..Len(h), j \in 1..Len(h) : QuotedFilenameAt(h, i, j)

\* C11: a finished download wrote one file and returned its name; that name is
\* the one quoted after filename= in the Content-Disposition header when the
\* header is there and has a quoted file name, and export_filename + ".bin" in
\* every other case.
C11_FilenameFromHeaderOrBin ==
  a_pc = "done" =>
    /\ written = {downloaded_file}
    /\ IF HasQuotedFilename(content_disposition)
         THEN \E i \in 1..Len(content_disposition), j \in 1..Len(content_disposition) :
                /\ QuotedFilenameAt(content_disposition, i, j)
                /\ \A i2 \in 1..(i - 1), j2 \in 1..Len(content_disposition) :
                     ~QuotedFilenameAt(content_disposition, i2, j2)
                /\ downloaded_file = SubSeq(content_disposition, i + 2, j - 1)
         ELSE downloaded_file = export_filename \o << ".bin" >>

\* a download whose header has filename= without quotes: the .bin name is used
C11_Witness ==
  /\ a_pc = "done"
  /\ content_disposition = << "filename=", "x", "x" >>
  /\ downloaded_file = << "e", ".bin" >>
  /\ written = {<< "e", ".bin" >>}

\* ------------------------------------------- the input of pipeline B: properties

\* C12: with no command-line argument and a base path, the main goes on with
\* base.zip when both files are there and the zip is the newer, with base.xlsx
\* when both are there and the xlsx is the newer, with the one that is there
\* when only one is, and ends with a not-found error when neither is.
C12_NewerOfZipAndXlsx ==
  (pc # "main" /\ argv = NoArgv /\ base_path # << >>) =>
    /\ (zip_exists /\ xlsx_exists /\ zip_mtime > xlsx_mtime) =>
         (pc = "expand" /\ input_path = base_path \o ZipExt)
    /\ (zip_exists /\ xlsx_exists /\ xlsx_mtime > zip_mtime) =>
         (pc = "expand" /\ input_path = base_path \o XlsxExt)
    /\ (zip_exists /\ ~xlsx_exists) =>
         (pc = "expand" /\ input_path = base_path \o ZipExt)
    /\ (xlsx_exists /\ ~zip_exists) =>
         (pc = "expand" /\ input_path = base_path \o XlsxExt)
    /\ (~zip_exists /\ ~xlsx_exists) =>
         (pc = "aborted" /\ input_error = "FileNotFoundError" /\ input_path = << >>)

\* both files there, the zip the newer one, and the zip chosen
C12_Witness ==
  /\ pc = "expand"
  /\ argv = NoArgv
  /\ zip_exists /\ xlsx_exists
  /\ zip_mtime = 2 /\ xlsx_mtime = 1
  /\ input_path = << "b" >> \o ZipExt

\* the input is an archive for get_excel_files_from_input
IsArchive(path) == EndsWith(Lower(path), ZipExt)

\* a run that got an empty list executes no statement and changes no table
NothingExecuted ==
  /\ pc \in {"loop", "done"}
  /\ sheet_names = << >>
  /\ stmts = << >>
  /\ conn_log = << >>
  /\ tables = tables_at_start

\* C13 as stated: from an archive, get_excel_files_from_input returns exactly
\* the extracted files whose names end in .xls or .xlsx, an empty list without
\* raising when there is none, and on an empty list process_excel_files
\* executes no statement.
C13_ExactlyXlsEntries ==
  (pc # "expand" /\ IsArchive(input_path)) =>
    /\ input_error = "none"
    /\ excel_files =
         { TempPath(e) : e \in { f \in zip_entries :
                                  EndsWith(f, XlsExt) \/ EndsWith(f, XlsxExt) } }
    /\ excel_files = {} => NothingExecuted

\* C13: from an archive, get_excel_files_from_input returns exactly the
\* extracted files whose names end, letter case ignored, in .xls or .xlsx, an
\* empty list without raising when there is none, and on an empty list
\* process_excel_files executes no statement.
C13_ExactlyXlsEntriesAnyCase ==
  (pc # "expand" /\ IsArchive(input_path)) =>
    /\ input_error = "none"
    /\ excel_files =
         { TempPath(e) : e \in { f \in zip_entries :
                                  \/ EndsWith(Lower(f), XlsExt)
                                  \/ EndsWith(Lower(f), XlsxExt) } }
    /\ excel_files = {} => NothingExecuted

\* an archive with a.xlsx, b.XLS and c.txt gave the two workbooks
C13_Witness ==
  /\ pc = "loop"
  /\ input_path = << "b" >> \o ZipExt
  /\ zip_entries = EntryNames
  /\ excel_files = { TempPath(<< "a" >> \o XlsxExt), TempPath(<< "b", ".", "X", "L", "S" >>) }

\* ------------------------------------------------ pipeline B: commits

Modifying == {"DROP", "CREATE", "TRUNCATE", "INSERT"}

\* C14: every DROP, CREATE, TRUNCATE and INSERT the connection executed is
\* followed at once by a commit, before any other statement; the one that has
\* no commit after it is the last thing the connection was asked, it raised
\* and the run is over.  So no two of them are ever uncommitted together.
C14_CommitAfterEveryStatement ==
  /\ \A i \in 1..Len(conn_log) :
       conn_log[i] \in Modifying =>
         IF i < Len(conn_log)
           THEN conn_log[i + 1] = "COMMIT"
           ELSE pc = "aborted"
  /\ \A i \in 1..Len(conn_log), j \in 1..Len(conn_log) :
       (i < j /\ conn_log[i] \in Modifying /\ conn_log[j] \in Modifying) =>
         \E k \in (i + 1)..(j - 1) : conn_log[k] = "COMMIT"

\* a sheet that dropped, created and loaded its table, each with its commit
C14_Witness ==
  /\ pc = "loop"
  /\ conn_log = << "QUERY", "DROP", "COMMIT", "CREATE", "COMMIT", "INSERT", "COMMIT" >>

\* ------------------------------------------------ pipeline B: inferred types

BIGINT == << "B", "I", "G", "I", "N", "T" >>

NUMBER == << "N", "U", "M", "B", "E", "R" >>

\* the columns of the sheet as infer_sql_type saw them
ColumnAsInferred(j) == ReparseColumn(raw_df[j])

\* C15: for a column of integers without a null infer_sql_type returns the
\* integer type of the dialect, BIGINT for sqlserver and NUMBER for oracle; for
\* a column of a kind the mapping does not list it returns the text type of
\* the dialect and does not fail.
C15_IntegerTypeAndTextFallback ==
  \A j \in DOMAIN raw_df :
    /\ (ColumnAsInferred(j).dtype = "int64" /\ ~ColumnAsInferred(j).hasNull) =>
         /\ col_types[j] = SQL_TYPE_MAPPING[db_type]["int64"]
         /\ col_types[j] \in {BIGINT, NUMBER}
         /\ db_type = "sqlserver" => col_types[j] = BIGINT
         /\ db_type = "oracle" => col_types[j] = NUMBER
    /\ ColumnAsInferred(j).dtype \notin DOMAIN SQL_TYPE_MAPPING[db_type] =>
         /\ col_types[j] = SQL_TYPE_MAPPING[db_type]["object"]
         /\ CoercionRule(col_types[j]) = "stringify"

\* a column of time spans without a null, a kind the mapping does not list,
\* typed as text on oracle
C15_Witness ==
  /\ pc = "exists"
  /\ db_type = "oracle"
  /\ raw_df = << [dtype |-> "timedelta64[ns]", hasNull |-> FALSE, parses |-> FALSE] >>
  /\ col_types = << SQL_TYPE_MAPPING["oracle"]["object"] >>

\* ------------------------------------------------------ pipeline A: login

LaterCalls == {"token", "export", "poll", "download"}

\* C16: login returns a session id and an organisation id only when the
\* request succeeded at the transport level and the body has both sessionId and
\* currentOrgId non-empty; in every other case login fails, and the run ends
\* without a token, export, poll or download request.
C16_LoginNeedsBothFields ==
  "login" \in { calls[i] : i \in 1..Len(calls) } =>
    IF /\ login_response.http_ok
       /\ login_response.sessionId \notin {"None", ""}
       /\ login_response.currentOrgId \notin {"None", ""}
      THEN session = << login_response.sessionId, login_response.currentOrgId >>
      ELSE /\ session = << >>
           /\ a_pc = "failed"
           /\ a_error.kind \in {"HTTPError", "LoginFailed"}
           /\ \A i \in 1..Len(calls) : calls[i] \notin LaterCalls

\* a login answered with a session id and an empty organisation id
C16_Witness ==
  /\ a_pc = "failed"
  /\ login_response = [http_ok |-> TRUE, sessionId |-> "sid", currentOrgId |-> ""]
  /\ a_error = Exc("LoginFailed", "none")
  /\ calls = << "infaLog", "login" >>

\* ---------------------------------------------- pipeline A: the poller waits

AllWaiting == \A i \in 1..Len(statuses) : statuses[i] \in WaitingStatuses

\* the poller is in its loop exactly while every poll so far succeeded with a
\* status that is neither COMPLETED nor a failure status (a missing status
\* included); it has then slept after each poll but the one it may be about
\* to sleep after
StillPollingWhileWaiting ==
  poller # "not called" =>
    /\ (poller = "polling") <=> AllWaiting
    /\ poller = "polling" =>
         \/ a_pc = "poll" /\ waits = Len(statuses)
         \/ a_pc = "sleep" /\ waits = Len(statuses) - 1
    /\ slept = waits * poll_interval

\* C17: the poller gives up after no number of polls.  It has ended exactly
\* when a poll returned COMPLETED or a failure status (or failed in
\* transport); as long as every poll returned another status or none, it is
\* still in its loop, and after n such polls it makes poll n + 1.
C17_PollsUntilTerminalStatus ==
  /\ []StillPollingWhileWaiting
  /\ \A n \in 0..(MaxPolls - 1) :
       (poller = "polling" /\ Len(statuses) = n) ~> (Len(statuses) = n + 1)

\* three polls without a terminal status, and the poller about to poll again
C17_Witness ==
  /\ poller = "polling"
  /\ a_pc = "poll"
  /\ statuses = << "RUNNING", "NONE", "PENDING" >>
  /\ waits = 3

\* ------------------------------------------- pipeline A: order of the requests

Last(seq) == seq[Len(seq)]

\* the number of the status poll made by request i
PollNumber(i) == CountIn(SubSeq(calls, 1, i), {"poll"})

\* request i succeeded and, for a status poll, brought a status after which
\* the job is still in progress
WentOn(i) ==
  /\ results[i] = "ok"
  /\ calls[i] = "poll" => statuses[PollNumber(i)] \in WaitingStatuses

\* C18: the requests to the service are made in the order login, token, export
\* start, status polls, download, each only after the one before it
\* succeeded, and the download only after a status poll that returned
\* COMPLETED.  The usage beacon, which main sends before it logs in, is no
\* request to the service.
C18_RequestsInOrder ==
  /\ Len(results) = Len(calls)
  /\ \A i \in 1..Len(calls) :
       /\ calls[i] = "infaLog" => i = 1
       /\ calls[i] = "login" =>
            \A j \in 1..(i - 1) : calls[j] = "infaLog"
       /\ calls[i] = "token" =>
            i > 1 /\ calls[i - 1] = "login" /\ results[i - 1] = "ok"
       /\ calls[i] = "export" =>
            i > 1 /\ calls[i - 1] = "token" /\ results[i - 1] = "ok"
       /\ calls[i] = "poll" =>
            /\ i > 1
            /\ \/ calls[i - 1] = "export" /\ results[i - 1] = "ok"
               \/ calls[i - 1] = "poll" /\ WentOn(i - 1)
       /\ calls[i] = "download" =>
            /\ i > 1 /\ calls[i - 1] = "poll" /\ results[i - 1] = "ok"
            /\ statuses[PollNumber(i - 1)] = "COMPLETED"

\* a whole run: login, token, export start, two polls, download
C18_Witness ==
  /\ a_pc = "done"
  /\ calls = << "infaLog", "login", "token", "export", "poll", "poll", "download" >>
  /\ statuses = << "RUNNING", "COMPLETED" >>

\* C19: login, token, export start and download are each requested at most
\* once in a run; a request that failed, in transport or otherwise, a status
\* poll included, is the last request of the run and the run has ended in
\* failure; the only request made twice in a row is the status poll, after a
\* poll that succeeded with a status that is not terminal.
C19_NoRetry ==
  /\ \A c \in {"login", "token", "export", "download"} : CountIn(calls, {c}) <= 1
  /\ \A i \in 1..Len(calls) :
       /\ results[i] \in {"http_error", "incomplete"} =>
            (i = Len(calls) /\ a_pc = "failed" /\ a_error # NoError)
       /\ (i < Len(calls) /\ calls[i + 1] = calls[i]) =>
            (calls[i] = "poll" /\ WentOn(i))
  /\ (a_pc = "failed" /\ calls # << >> /\ Last(results) = "http_error") =>
       a_error = Exc("HTTPError", "none")

\* a status poll failed in transport after a poll that succeeded: the run
\* ended there
C19_Witness ==
  /\ a_pc = "failed"
  /\ calls = << "infaLog", "login", "token", "export", "poll", "poll" >>
  /\ statuses = << "RUNNING", "HTTP_ERROR" >>
  /\ results = << "ignored", "ok", "ok", "ok", "ok", "http_error" >>

\* ------------------------------------------------ pipeline B: coercion rules

\* the rule that fits a column kind
RuleOfKind(kind) ==
  CASE kind = "object" -> "stringify"
    [] kind = "datetime64[ns]" -> "isoformat"
    [] kind \in {"int64", "float64", "bool"} -> "passthrough"

\* the kind whose type infer_sql_type gives column c
InferredKind(db, c) ==
  IF c.hasNull \/ c.dtype \notin DOMAIN SQL_TYPE_MAPPING[db] THEN "object" ELSE c.dtype

\* C20: on the dialect of the run, whichever of the six it is, and for every
\* column kind the rule selected from the inferred type string is the rule of
\* the kind: text is turned into
\* strings, a timestamp into its ISO-8601 text, integer, float and bool are
\* passed through; no type string of SQL_TYPE_MAPPING selects the rule of
\* another kind.
C20_RuleMatchesKind ==
  /\ \A kind \in DOMAIN SQL_TYPE_MAPPING[db_type] :
       CoercionRule(SQL_TYPE_MAPPING[db_type][kind]) = RuleOfKind(kind)
  /\ \A j \in DOMAIN raw_df :
       LET c == ColumnAsInferred(j)
           kind == InferredKind(db_type, c)
       IN  /\ col_types[j] = SQL_TYPE_MAPPING[db_type][kind]
           /\ CoercionRule(col_types[j]) = RuleOfKind(kind)
           /\ df[j] = IF RuleOfKind(kind) = "passthrough"
                        THEN c
                        ELSE [dtype |-> "object", hasNull |-> c.hasNull, parses |-> FALSE]

\* a text column without a null on databricks: typed STRING and turned into
\* strings
C20_Witness ==
  /\ pc = "exists"
  /\ db_type = "databricks"
  /\ raw_df = << [dtype |-> "object", hasNull |-> FALSE, parses |-> FALSE] >>
  /\ col_types = << << "S", "T", "R", "I", "N", "G" >> >>
  /\ df = raw_df

\* --------------------------------------------- pipeline B: a failing statement

\* a step: no step is taken once the run has aborted, and the step that
\* aborts it executes one statement, commits nothing, rolls nothing back and
\* leaves every table as it was
AbortsAtTheStatement ==
  /\ pc # "aborted"
  /\ pc' = "aborted" =>
       /\ Len(conn_log') = Len(conn_log) + 1
       /\ conn_log'[Len(conn_log')] \in Modifying \cup {"QUERY"}
       /\ tables' = tables
       /\ committed' = committed
       /\ sheet_names' = sheet_names
       /\ sheet_tables' = sheet_tables

\* in a run that a statement ended, the statement that raised is the last
\* thing the connection was asked, and what the earlier statements of the run
\* did to the tables is all committed
EarlierWorkCommitted ==
  /\ committed = tables
  /\ pc = "aborted" =>
       /\ conn_log # << >>
       /\ conn_log[Len(conn_log)] \in Modifying \cup {"QUERY"}
       /\ \A i \in 1..(Len(conn_log) - 1) :
            conn_log[i] \in Modifying => conn_log[i + 1] = "COMMIT"

\* C21: when a statement of the load fails, the existence query, DROP, CREATE,
\* TRUNCATE or INSERT, the run ends at that statement: no statement follows
\* for this sheet or a later one, nothing is rolled back, and the tables
\* created or loaded earlier in the run stay as they were committed.
C21_AbortsWithoutRollback ==
  /\ []EarlierWorkCommitted
  /\ [][AbortsAtTheStatement]_vars

\* the INSERT of a second sheet raised after the first sheet had created and
\* loaded the table: the rows of the first sheet are there, committed
C21_Witness ==
  /\ pc = "aborted"
  /\ db_type = "postgres"
  /\ conn_log = << "QUERY", "CREATE", "COMMIT", "INSERT", "COMMIT", "QUERY", "INSERT" >>
  /\ tables = (<< "a" >> :> {1})
  /\ committed = tables

====
